---- MODULE Spec2Model ----
(***************************************************************************)
(* Singly linked list of createLinkedList(): a heap of nodes (value, next) *)
(* with the list object's head, tail and length fields, and one action per *)
(* method call.  Every method is an operator from the list state to an     *)
(* outcome (new state, completion status, returned value); the action      *)
(* applies it and records the call and the state it was made in.           *)
(***************************************************************************)
EXTENDS Integers, Sequences, FiniteSets

\* most nodes ever created by push in one run
MaxNodes == 3

\* null / none: no node
Null == 0
\* outcome of dereferencing null during a walk
Thrown == -1
\* outcome of a walk that never ends (a cycle in the chain)
Hang == -2

Nodes == 1..MaxNodes
Values == {"a", "b"}
NoValue == ""
\* indices a caller passes: negative, in range, equal to length, larger
Indices == -1..(MaxNodes + 1)

VARIABLES head, tail, length, next, value, allocated, pre, res, phase, removed,
          abs

\* the linked list, the record of its last call, and the sequence it stands for
listVars ==
  <<head, tail, length, next, value, allocated, pre, res, phase, removed, abs>>

\* the stores of createQueue, createStack and createPriorityQueue, and the
\* record of the items handed to them and got back
VARIABLES queue, array, lowPriorityQueue, highPriorityQueue,
          issued, served, pending, call

collectionVars ==
  <<queue, array, lowPriorityQueue, highPriorityQueue,
    issued, served, pending, call>>

vars == <<listVars, collectionVars>>

\* the list object together with the heap it points into
Cur ==
  [head |-> head, tail |-> tail, length |-> length,
   next |-> next, value |-> value, allocated |-> allocated]

\* how a call ends: status is "ok" (returned), "throw" (TypeError) or "hang"
Outcome(st, status, node, str, bool) ==
  [st |-> st, status |-> status, node |-> node, str |-> str, bool |-> bool]

Returns(st, node) == Outcome(st, "ok", node, "", FALSE)

Throws(st) == Outcome(st, "throw", Null, "", FALSE)

Hangs(st) == Outcome(st, "hang", Null, "", FALSE)

createNode(L, v) ==
  [L EXCEPT !.allocated = L.allocated + 1,
            !.value[L.allocated + 1] = v,
            !.next[L.allocated + 1] = Null]

isEmpty(L) == L.length = 0

\* push that leaves the tail where it was when the list is not empty
pushKeepingTail(L, v) ==
  LET node == L.allocated + 1
      M == createNode(L, v)
  IN IF M.head = Null
       THEN Returns([M EXCEPT !.head = node, !.tail = node,
                              !.length = M.length + 1], node)
       ELSE IF M.tail = Null
         THEN Throws(M)
         ELSE Returns([M EXCEPT !.next[M.tail] = node,
                                !.length = M.length + 1], node)

\* push that closes the chain into a ring: the new node's next is the head
pushCircular(L, v) ==
  LET node == L.allocated + 1
      M == createNode(L, v)
  IN IF M.head = Null
       THEN Returns([M EXCEPT !.head = node, !.tail = node,
                              !.length = M.length + 1], node)
       ELSE IF M.tail = Null
         THEN Throws(M)
         ELSE Returns([M EXCEPT !.next[M.tail] = node, !.next[node] = M.head,
                                !.tail = node,
                                !.length = M.length + 1], node)

push(L, v) ==
  LET node == L.allocated + 1
      M == createNode(L, v)
  IN IF M.head = Null
       THEN Returns([M EXCEPT !.head = node, !.tail = node,
                              !.length = M.length + 1], node)
       ELSE IF M.tail = Null
         THEN Throws(M)
         ELSE Returns([M EXCEPT !.next[M.tail] = node, !.tail = node,
                                !.length = M.length + 1], node)

\* the search loop of pop: the first node whose next is the tail; Null when
\* the loop runs off the chain with penultimate still unassigned
RECURSIVE FindPenultimate(_, _, _)
FindPenultimate(L, current, fuel) ==
  IF current = Null THEN Null
  ELSE IF L.next[current] = L.tail THEN current
  ELSE IF fuel = 0 THEN Hang
  ELSE FindPenultimate(L, L.next[current], fuel - 1)

\* pop without the isEmpty check: an empty list takes the one-item branch
popWithoutEmptyCheck(L) ==
  IF L.head = L.tail
    THEN Returns([L EXCEPT !.head = Null, !.tail = Null,
                           !.length = L.length - 1], L.tail)
    ELSE LET penultimate == FindPenultimate(L, L.head, L.allocated)
         IN IF penultimate = Hang THEN Hangs(L)
            ELSE IF penultimate = Null THEN Throws(L)
            ELSE Returns([L EXCEPT !.next[penultimate] = Null,
                                   !.tail = penultimate,
                                   !.length = L.length - 1], L.tail)

pop(L) ==
  IF isEmpty(L) THEN Returns(L, Null)
  ELSE IF L.head = L.tail
    THEN Returns([L EXCEPT !.head = Null, !.tail = Null,
                           !.length = L.length - 1], L.tail)
    ELSE LET penultimate == FindPenultimate(L, L.head, L.allocated)
         IN IF penultimate = Hang THEN Hangs(L)
            ELSE IF penultimate = Null THEN Throws(L)
            ELSE Returns([L EXCEPT !.next[penultimate] = Null,
                                   !.tail = penultimate,
                                   !.length = L.length - 1], L.tail)

\* current after `steps` iterations of  current = current.next ; reading
\* .next of null throws
RECURSIVE Walk(_, _, _)
Walk(L, current, steps) ==
  IF steps = 0 THEN current
  ELSE IF current = Null THEN Thrown
  ELSE Walk(L, L.next[current], steps - 1)

get(L, index) ==
  IF index < 0 \/ index > L.length THEN Returns(L, Null)
  ELSE IF index = 0 THEN Returns(L, L.head)
  ELSE LET current == Walk(L, L.head, index)
       IN IF current = Thrown THEN Throws(L) ELSE Returns(L, current)

\* delete with the splice written as  previous.next = current : the node
\* stays linked
deleteWithoutSplice(L, index) ==
  IF index < 0 \/ index > L.length THEN Returns(L, Null)
  ELSE IF index = 0
    THEN IF L.head = Null THEN Throws(L)
         ELSE Returns([L EXCEPT !.head = L.next[L.head],
                                !.length = L.length - 1], L.head)
    ELSE LET previous == Walk(L, L.head, index - 1)
         IN IF previous = Thrown \/ previous = Null THEN Throws(L)
            ELSE LET current == L.next[previous]
                 IN IF current = Null THEN Throws(L)
                    ELSE Returns([L EXCEPT !.next[previous] = current,
                                           !.length = L.length - 1], current)

delete(L, index) ==
  IF index < 0 \/ index > L.length THEN Returns(L, Null)
  ELSE IF index = 0
    THEN IF L.head = Null THEN Throws(L)
         ELSE Returns([L EXCEPT !.head = L.next[L.head],
                                !.length = L.length - 1], L.head)
    ELSE LET previous == Walk(L, L.head, index - 1)
         IN IF previous = Thrown \/ previous = Null THEN Throws(L)
            ELSE LET current == L.next[previous]
                 IN IF current = Null THEN Throws(L)
                    ELSE Returns([L EXCEPT !.next[previous] = L.next[current],
                                           !.length = L.length - 1], current)

\* the nodes print visits from current on; <<Hang>> is appended when the
\* walk is still going after more steps than there are nodes
RECURSIVE ChainFrom(_, _, _)
ChainFrom(L, current, fuel) ==
  IF current = Null THEN <<>>
  ELSE IF fuel = 0 THEN <<Hang>>
  ELSE <<current>> \o ChainFrom(L, L.next[current], fuel - 1)

Chain(L) == ChainFrom(L, L.head, L.allocated)

ChainValues(L) == [k \in 1..Len(Chain(L)) |-> L.value[Chain(L)[k]]]

\* Array.prototype.join
RECURSIVE join(_, _)
join(values, sep) ==
  IF values = <<>> THEN ""
  ELSE IF Len(values) = 1 THEN values[1]
  ELSE values[1] \o sep \o join(Tail(values), sep)

\* print that walks with this.head instead of a local cursor: the list is
\* left without its head
printMovingHead(L) ==
  IF Len(Chain(L)) > 0 /\ Chain(L)[Len(Chain(L))] = Hang THEN Hangs(L)
  ELSE Outcome([L EXCEPT !.head = Null], "ok", Null,
               join(ChainValues(L), " => "), FALSE)

print(L) ==
  IF Len(Chain(L)) > 0 /\ Chain(L)[Len(Chain(L))] = Hang THEN Hangs(L)
  ELSE Outcome(L, "ok", Null, join(ChainValues(L), " => "), FALSE)

\* the contents of the three collections
Stores ==
  [queue |-> queue, array |-> array,
   lowPriorityQueue |-> lowPriorityQueue, highPriorityQueue |-> highPriorityQueue]

Call(op, arg, val) == [op |-> op, arg |-> arg, val |-> val]

\* the call just made and how it ended
Record(c, out) ==
  [op |-> c.op, arg |-> c.arg, val |-> c.val,
   status |-> out.status, node |-> out.node, str |-> out.str, bool |-> out.bool]

Apply(c, out) ==
  /\ head' = out.st.head
  /\ tail' = out.st.tail
  /\ length' = out.st.length
  /\ next' = out.st.next
  /\ value' = out.st.value
  /\ allocated' = out.st.allocated
  /\ pre' = Cur
  /\ res' = Record(c, out)
  /\ UNCHANGED collectionVars

Init ==
  /\ head = Null
  /\ tail = Null
  /\ length = 0
  /\ next = [n \in Nodes |-> Null]
  /\ value = [n \in Nodes |-> NoValue]
  /\ allocated = 0
  /\ pre = Cur
  /\ res = Record(Call("create", 0, NoValue), Returns(Cur, Null))
  /\ phase = "push"
  /\ removed = 0
  /\ abs = <<>>
  /\ queue = <<>>
  /\ array = <<>>
  /\ lowPriorityQueue = <<>>
  /\ highPriorityQueue = <<>>
  /\ issued = 0
  /\ served = 0
  /\ pending = {}
  /\ call = [on |-> "none", op |-> "create", item |-> 0, priority |-> "omitted",
             ret |-> 0, bool |-> FALSE, before |-> Stores, waiting |-> pending]

Push(v) ==
  /\ allocated < MaxNodes
  /\ Apply(Call("push", 0, v), push(Cur, v))
  /\ phase' = IF phase = "push" THEN "push" ELSE "mixed"
  /\ removed' = 0
  /\ abs' = Append(abs, v)

\* a removal counts towards the accounting run (pushes, then removals at
\* valid positions) as long as nothing else has been called
Removal(c, out, valid) ==
  /\ Apply(c, out)
  /\ phase' = IF phase \in {"push", "remove"} /\ valid /\ res.status = "ok"
                THEN "remove" ELSE "mixed"
  /\ removed' = IF phase' = "remove" THEN removed + 1 ELSE 0

\* the sequence without its element at 0-based position index; unchanged
\* when there is no such element
Without(seq, index) ==
  IF 0 <= index /\ index < Len(seq)
    THEN [j \in 1..(Len(seq) - 1) |-> IF j <= index THEN seq[j] ELSE seq[j + 1]]
    ELSE seq

Pop ==
  /\ Removal(Call("pop", 0, NoValue), pop(Cur), length > 0)
  /\ abs' = Without(abs, Len(abs) - 1)

Delete(index) ==
  /\ Removal(Call("delete", index, NoValue), delete(Cur, index),
             0 <= index /\ index < length)
  /\ abs' = Without(abs, index)

Read(c, out) ==
  /\ Apply(c, out)
  /\ phase' = "mixed"
  /\ removed' = 0
  /\ abs' = abs

Get(index) == Read(Call("get", index, NoValue), get(Cur, index))

PrintList == Read(Call("print", 0, NoValue), print(Cur))

IsEmpty ==
  Read(Call("isEmpty", 0, NoValue), Outcome(Cur, "ok", Null, "", isEmpty(Cur)))

Next ==
  \/ \E v \in Values : Push(v)
  \/ Pop
  \/ \E index \in Indices : Delete(index)
  \/ \E index \in Indices : Get(index)
  \/ PrintList
  \/ IsEmpty

Spec == Init /\ [][Next]_vars

----------------------------------------------------------------------------
(***************************************************************************)
(* createQueue, createStack and createPriorityQueue: each keeps its items  *)
(* in a JavaScript array, modelled as a sequence whose element k is array  *)
(* index k - 1.  The caller numbers the items it hands over 1, 2, 3, ...   *)
(* in the order of the calls, so an older item is a smaller number.        *)
(***************************************************************************)

\* most items ever handed to a collection in one run
MaxItems == 6

\* undefined: what Array.prototype.pop and an index read past the end give
Undefined == 0

\* the ways a caller passes the second parameter of the priority enqueue
PriorityArgs == {"omitted", "true", "false"}

\* array[idx]
At(a, idx) == IF 0 <= idx /\ idx < Len(a) THEN a[idx + 1] ELSE Undefined

\* Array.prototype.unshift
unshift(a, item) == <<item>> \o a

\* Array.prototype.pop: the array left and the element returned
arrayPop(a) ==
  IF Len(a) = 0 THEN [array |-> a, ret |-> Undefined]
  ELSE [array |-> SubSeq(a, 1, Len(a) - 1), ret |-> a[Len(a)]]

\* Array.prototype.shift, for comparison
arrayShift(a) ==
  IF Len(a) = 0 THEN [array |-> a, ret |-> Undefined]
  ELSE [array |-> SubSeq(a, 2, Len(a)), ret |-> a[1]]

queueEnqueue(q, item) == unshift(q, item)

\* dequeue taking the item at the head of the array, the newest one
queueDequeueNewest(q) == arrayShift(q)

queueDequeue(q) == arrayPop(q)

queuePeek(q) == LET nextIdx == Len(q) - 1 IN At(q, nextIdx)

queueLength(q) == Len(q)

queueIsEmpty(q) == Len(q) = 0

stackPush(a, item) == Append(a, item)

\* pop taking the item at the bottom of the stack
stackPopOldest(a) == arrayShift(a)

stackPop(a) == arrayPop(a)

stackPeek(a) == LET lastItemIdx == Len(a) - 1 IN At(a, lastItemIdx)

stackLength(a) == Len(a)

stackIsEmpty(a) == Len(a) = 0

\* the two lanes of the priority queue
Lanes == [low |-> lowPriorityQueue, high |-> highPriorityQueue]

\* isHeighPriority: boolean = false
isHeighPriority(arg) == arg = "true"

pqEnqueue(P, item, arg) ==
  IF isHeighPriority(arg)
    THEN [P EXCEPT !.high = queueEnqueue(P.high, item)]
    ELSE [P EXCEPT !.low = queueEnqueue(P.low, item)]

\* dequeue that asks the low-priority lane first
pqDequeueLowFirst(P) ==
  IF ~queueIsEmpty(P.low)
    THEN [lanes |-> [P EXCEPT !.low = queueDequeue(P.low).array],
          ret |-> queueDequeue(P.low).ret]
    ELSE [lanes |-> [P EXCEPT !.high = queueDequeue(P.high).array],
          ret |-> queueDequeue(P.high).ret]

pqDequeue(P) ==
  IF ~queueIsEmpty(P.high)
    THEN [lanes |-> [P EXCEPT !.high = queueDequeue(P.high).array],
          ret |-> queueDequeue(P.high).ret]
    ELSE [lanes |-> [P EXCEPT !.low = queueDequeue(P.low).array],
          ret |-> queueDequeue(P.low).ret]

pqPeek(P) ==
  IF ~queueIsEmpty(P.high) THEN queuePeek(P.high) ELSE queuePeek(P.low)

pqLength(P) == queueLength(P.high) + queueLength(P.low)

pqIsEmpty(P) == queueIsEmpty(P.high) /\ queueIsEmpty(P.low)

\* the call just made on a collection: its argument, what it returned, the
\* stores before it, and the items that were handed over and not yet got back
Made(on, op, item, arg, ret, bool) ==
  [on |-> on, op |-> op, item |-> item, priority |-> arg,
   ret |-> ret, bool |-> bool, before |-> Stores, waiting |-> pending]

\* a call that hands a new item over
HandOver(on, op, arg) ==
  /\ issued < MaxItems
  /\ issued' = issued + 1
  /\ served' = served
  /\ pending' = pending \cup {[item |-> issued + 1, high |-> isHeighPriority(arg)]}
  /\ call' = Made(on, op, issued + 1, arg, Undefined, FALSE)

\* a call that removes an item, or finds none
TakeBack(on, op, ret) ==
  /\ issued' = issued
  /\ served' = IF ret = Undefined THEN served ELSE served + 1
  /\ pending' = {e \in pending : e.item # ret}
  /\ call' = Made(on, op, 0, "omitted", ret, FALSE)

\* a call that only reads
Look(on, op, ret, bool) ==
  /\ UNCHANGED <<issued, served, pending>>
  /\ call' = Made(on, op, 0, "omitted", ret, bool)

QueueEnqueue ==
  /\ HandOver("queue", "enqueue", "omitted")
  /\ queue' = queueEnqueue(queue, issued + 1)
  /\ UNCHANGED <<listVars, array, lowPriorityQueue, highPriorityQueue>>

QueueDequeue ==
  /\ TakeBack("queue", "dequeue", queueDequeue(queue).ret)
  /\ queue' = queueDequeue(queue).array
  /\ UNCHANGED <<listVars, array, lowPriorityQueue, highPriorityQueue>>

QueuePeek ==
  /\ Look("queue", "peek", queuePeek(queue), FALSE)
  /\ UNCHANGED <<listVars, queue, array, lowPriorityQueue, highPriorityQueue>>

QueueLength ==
  /\ Look("queue", "length", queueLength(queue), FALSE)
  /\ UNCHANGED <<listVars, queue, array, lowPriorityQueue, highPriorityQueue>>

QueueIsEmpty ==
  /\ Look("queue", "isEmpty", Undefined, queueIsEmpty(queue))
  /\ UNCHANGED <<listVars, queue, array, lowPriorityQueue, highPriorityQueue>>

NextQueue ==
  \/ QueueEnqueue
  \/ QueueDequeue
  \/ QueuePeek
  \/ QueueLength
  \/ QueueIsEmpty

SpecQueue == Init /\ [][NextQueue]_vars

StackPush ==
  /\ HandOver("stack", "push", "omitted")
  /\ array' = stackPush(array, issued + 1)
  /\ UNCHANGED <<listVars, queue, lowPriorityQueue, highPriorityQueue>>

StackPop ==
  /\ TakeBack("stack", "pop", stackPop(array).ret)
  /\ array' = stackPop(array).array
  /\ UNCHANGED <<listVars, queue, lowPriorityQueue, highPriorityQueue>>

StackPeek ==
  /\ Look("stack", "peek", stackPeek(array), FALSE)
  /\ UNCHANGED <<listVars, queue, array, lowPriorityQueue, highPriorityQueue>>

StackLength ==
  /\ Look("stack", "length", stackLength(array), FALSE)
  /\ UNCHANGED <<listVars, queue, array, lowPriorityQueue, highPriorityQueue>>

StackIsEmpty ==
  /\ Look("stack", "isEmpty", Undefined, stackIsEmpty(array))
  /\ UNCHANGED <<listVars, queue, array, lowPriorityQueue, highPriorityQueue>>

NextStack ==
  \/ StackPush
  \/ StackPop
  \/ StackPeek
  \/ StackLength
  \/ StackIsEmpty

SpecStack == Init /\ [][NextStack]_vars

PqEnqueue(arg) ==
  /\ HandOver("pq", "enqueue", arg)
  /\ lowPriorityQueue' = pqEnqueue(Lanes, issued + 1, arg).low
  /\ highPriorityQueue' = pqEnqueue(Lanes, issued + 1, arg).high
  /\ UNCHANGED <<listVars, queue, array>>

PqDequeue ==
  /\ TakeBack("pq", "dequeue", pqDequeue(Lanes).ret)
  /\ lowPriorityQueue' = pqDequeue(Lanes).lanes.low
  /\ highPriorityQueue' = pqDequeue(Lanes).lanes.high
  /\ UNCHANGED <<listVars, queue, array>>

PqPeek ==
  /\ Look("pq", "peek", pqPeek(Lanes), FALSE)
  /\ UNCHANGED <<listVars, queue, array, lowPriorityQueue, highPriorityQueue>>

PqLength ==
  /\ Look("pq", "length", pqLength(Lanes), FALSE)
  /\ UNCHANGED <<listVars, queue, array, lowPriorityQueue, highPriorityQueue>>

PqIsEmpty ==
  /\ Look("pq", "isEmpty", Undefined, pqIsEmpty(Lanes))
  /\ UNCHANGED <<listVars, queue, array, lowPriorityQueue, highPriorityQueue>>

NextPriorityQueue ==
  \/ \E arg \in PriorityArgs : PqEnqueue(arg)
  \/ PqDequeue
  \/ PqPeek
  \/ PqLength
  \/ PqIsEmpty

SpecPriorityQueue == Init /\ [][NextPriorityQueue]_vars

----------------------------------------------------------------------------
\* the last call was one of the mutating methods (or none was made yet)
AfterMutation == res.op \in {"create", "push", "pop", "delete"}

Last(seq) == seq[Len(seq)]

\* the values pushed so far, in push order (nodes are numbered as created)
Pushed(L) == [k \in 1..L.allocated |-> L.value[k]]

RemoveAt(seq, k) ==
  [j \in 1..(Len(seq) - 1) |-> IF j < k THEN seq[j] ELSE seq[j + 1]]

\* C1: invariant I1 - after any sequence of calls, length is 0 exactly when
\* head is none, and head is none exactly when tail is none.
C1_EmptyIffNoHeadIffNoTail ==
  /\ (length = 0) <=> (head = Null)
  /\ (head = Null) <=> (tail = Null)

\* C2: invariants I3 and I4 - after any sequence of push, pop and delete, a
\* non-empty list's chain from head has exactly `length` nodes, the last of
\* them is tail, and tail.next is none.
C2_ChainEndsAtTail ==
  (AfterMutation /\ length > 0) =>
    /\ Len(Chain(Cur)) = length
    /\ Last(Chain(Cur)) = tail
    /\ tail # Null
    /\ next[tail] = Null

\* C3: length accounting - during a run of N pushes followed by M <= N
\* removals (pop, or delete at an index in 0..length-1), every removal
\* completes and length is N - M.
C3_LengthAccounting ==
  phase \in {"push", "remove"} =>
    /\ res.status = "ok"
    /\ length = allocated - removed

\* C4: no call of any method, with any integer index, raises an error: every
\* call runs to completion and returns.
C4_NoCallThrows == res.status = "ok"

\* C5: delete(index) with index < 0 or index >= length returns none and
\* leaves head, tail, length and the node chain as they were.
C5_DeleteOutOfBounds ==
  (res.op = "delete" /\ (res.arg < 0 \/ res.arg >= pre.length)) =>
    /\ res.status = "ok"
    /\ res.node = Null
    /\ Cur = pre

\* C6: get(index) with index < 0 or index >= length returns none and leaves
\* head, tail, length and the node chain as they were.
C6_GetOutOfBounds ==
  (res.op = "get" /\ (res.arg < 0 \/ res.arg >= pre.length)) =>
    /\ res.status = "ok"
    /\ res.node = Null
    /\ Cur = pre

\* C7: delete(0) on a list of exactly one element returns that element's node
\* and leaves the list Empty: head none, tail none, length 0.
C7_DeleteOnlyElement ==
  (res.op = "delete" /\ res.arg = 0 /\ pre.length = 1 /\ Len(Chain(pre)) = 1) =>
    /\ res.status = "ok"
    /\ res.node = pre.head
    /\ head = Null
    /\ tail = Null
    /\ length = 0

\* C8: delete(index) with 0 < index = length - 1, removing the tail, makes the
\* preceding node the tail: tail is then the last node reachable from head,
\* and a following push(v) makes v the last value print() produces.
C8_DeleteTailReassignsTail ==
  (/\ res.op = "delete"
   /\ 0 < res.arg
   /\ res.arg = pre.length - 1
   /\ Len(Chain(pre)) = pre.length
   /\ Last(Chain(pre)) = pre.tail) =>
    /\ res.status = "ok"
    /\ tail = Chain(pre)[res.arg]
    /\ tail = Last(Chain(Cur))
    /\ allocated < MaxNodes =>
         \A v \in Values :
           LET after == push(Cur, v)
           IN /\ after.status = "ok"
              /\ Last(Chain(after.st)) = after.node
              /\ Last(ChainValues(after.st)) = v
              /\ print(after.st).str = join(Append(ChainValues(Cur), v), " => ")

\* C9: on a list built by pushing v0..v(n-1), delete(i) with 0 <= i < n
\* returns the node holding vi, decrements length by 1, and print() then
\* yields the other values in their original order joined by " => ".
C9_DeleteAtValidIndex ==
  (res.op = "delete" /\ phase = "remove" /\ removed = 1) =>
    /\ res.status = "ok"
    /\ res.node # Null
    /\ value[res.node] = Pushed(pre)[res.arg + 1]
    /\ length = pre.length - 1
    /\ print(Cur).status = "ok"
    /\ print(Cur).str = join(RemoveAt(Pushed(pre), res.arg + 1), " => ")

\* the second of three pushed values deleted: it is returned and print()
\* shows the other two
C9_Witness ==
  /\ res.op = "delete" /\ phase = "remove" /\ removed = 1
  /\ res.status = "ok"
  /\ res.arg = 1
  /\ Pushed(pre) = <<"a", "b", "a">>
  /\ value[res.node] = "b"
  /\ length = 2
  /\ print(Cur).str = "a => a"

\* C10: after any sequence of push, pop and delete, get(i) with
\* 0 <= i < length returns the node at position i of the element sequence
\* (the one holding the i-th value of print()), without raising an error.
C10_GetAtValidIndex ==
  (res.op = "get" /\ 0 <= res.arg /\ res.arg < pre.length) =>
    /\ res.status = "ok"
    /\ res.arg + 1 <= Len(Chain(pre))
    /\ res.node = Chain(pre)[res.arg + 1]

\* C11: pop() on a list of length 1 returns the sole node and leaves
\* head none, tail none and length 0.
C11_PopOnlyElement ==
  (res.op = "pop" /\ pre.length = 1) =>
    /\ res.status = "ok"
    /\ res.node # Null
    /\ res.node = pre.head
    /\ head = Null
    /\ tail = Null
    /\ length = 0

\* C12: pop() on a list of length >= 2 returns the last node (the tail),
\* makes the penultimate node the tail with next none, decrements length by
\* 1 and leaves the other elements and their order as they were.
C12_PopLastOfMany ==
  (res.op = "pop" /\ pre.length >= 2) =>
    /\ res.status = "ok"
    /\ Len(Chain(pre)) = pre.length
    /\ res.node = Last(Chain(pre))
    /\ res.node = pre.tail
    /\ tail = Chain(pre)[pre.length - 1]
    /\ next[tail] = Null
    /\ length = pre.length - 1
    /\ Chain(Cur) = SubSeq(Chain(pre), 1, pre.length - 1)
    /\ value = pre.value

\* C13: pop() when length is 0 returns none and changes nothing: head, tail
\* and length (still 0) are as before.
C13_PopEmpty ==
  (res.op = "pop" /\ pre.length = 0) =>
    /\ res.status = "ok"
    /\ res.node = Null
    /\ Cur = pre
    /\ length = 0

\* pop() called on a list that was filled and drained again
C13_Witness ==
  /\ res.op = "pop"
  /\ pre.length = 0
  /\ pre.allocated > 0
  /\ res.status = "ok"
  /\ res.node = Null
  /\ length = 0

C15_ReadsPreserveState ==
  /\ res.op \in {"print", "get", "isEmpty"} => Cur = pre
  /\ res.op = "print" => (res.status = "ok" /\ print(Cur).str = res.str)
  /\ res.op = "isEmpty" => (res.status = "ok" /\ res.bool = (pre.length = 0))

\* print() of a list of two elements
C15_Witness ==
  /\ res.op = "print"
  /\ res.status = "ok"
  /\ length = 2
  /\ res.str = "a => b"
  /\ Cur = pre

NoRepeats(seq) == \A i, j \in 1..Len(seq) : seq[i] = seq[j] => i = j

\* C19: invariant I5 - after any sequence of push, pop and delete the chain
\* from head is finite and holds each node at most once, so the loops of
\* print() and pop() end.
C19_NoCyclesLoopsEnd ==
  /\ Len(Chain(Cur)) <= allocated
  /\ \A k \in 1..Len(Chain(Cur)) : Chain(Cur)[k] \in 1..allocated
  /\ NoRepeats(Chain(Cur))
  /\ print(Cur).status # "hang"
  /\ pop(Cur).status # "hang"
  /\ res.status # "hang"

\* pop() walked a chain of three nodes to its penultimate node
C19_Witness ==
  /\ res.op = "pop"
  /\ res.status = "ok"
  /\ pre.length = 3
  /\ Len(Chain(pre)) = 3
  /\ Len(Chain(Cur)) = 2
  /\ print(Cur).status = "ok"

\* the items of a set of waiting entries
ItemsOf(entries) == {e.item : e \in entries}

\* the item handed over first / last among a non-empty set of items
Oldest(items) == CHOOSE i \in items : \A j \in items : i <= j

Newest(items) == CHOOSE i \in items : \A j \in items : i >= j

OldestOrNone(items) == IF items = {} THEN Undefined ELSE Oldest(items)

\* what strict two-tier priority serves next from the waiting entries
NextByPriority(entries) ==
  IF {e \in entries : e.high} # {}
    THEN Oldest(ItemsOf({e \in entries : e.high}))
    ELSE OldestOrNone(ItemsOf(entries))

\* C16: strict two-tier priority - dequeue() returns and removes the oldest
\* waiting high-priority item if there is one, otherwise the oldest
\* low-priority item, otherwise none; peek() returns that same item and
\* removes nothing; no low-priority item is returned while a high-priority
\* one waits.
C16_StrictTwoTierPriority ==
  call.on = "pq" =>
    /\ call.op = "dequeue" =>
         /\ call.ret = NextByPriority(call.waiting)
         /\ pqLength(Lanes) = Cardinality(pending)
         /\ pqLength(Lanes) = issued - served
         /\ (call.ret # Undefined /\ [item |-> call.ret, high |-> FALSE] \in call.waiting)
              => {e \in call.waiting : e.high} = {}
         /\ call.ret # Undefined =>
              ~ \E k \in 1..Len(lowPriorityQueue) : lowPriorityQueue[k] = call.ret
         /\ call.ret # Undefined =>
              ~ \E k \in 1..Len(highPriorityQueue) : highPriorityQueue[k] = call.ret
    /\ call.op = "peek" =>
         /\ call.ret = NextByPriority(call.waiting)
         /\ call.ret = pqDequeue(Lanes).ret
         /\ Stores = call.before
         /\ pending = call.waiting

\* a high-priority item is served before two older low-priority items
C16_Witness ==
  /\ call.on = "pq"
  /\ call.op = "dequeue"
  /\ call.ret = 3
  /\ call.waiting = {[item |-> 1, high |-> FALSE], [item |-> 2, high |-> FALSE],
                     [item |-> 3, high |-> TRUE]}
  /\ pqPeek(Lanes) = 1

\* C17: FIFO - dequeue() removes and returns the item enqueued earliest
\* among those not yet dequeued (none on an empty queue, which stays at
\* length 0); peek() returns what the next dequeue() would and changes
\* nothing; length is enqueues minus successful dequeues, and isEmpty()
\* holds exactly when length is 0.
C17_QueueFifo ==
  call.on = "queue" =>
    /\ queueLength(queue) = issued - served
    /\ call.op = "dequeue" =>
         /\ call.ret = OldestOrNone(ItemsOf(call.waiting))
         /\ call.ret # Undefined => call.ret = served
         /\ call.waiting = {} => queueLength(queue) = 0
         /\ call.ret # Undefined =>
              ~ \E k \in 1..Len(queue) : queue[k] = call.ret
    /\ call.op = "peek" =>
         /\ call.ret = OldestOrNone(ItemsOf(call.waiting))
         /\ call.ret = queueDequeue(queue).ret
         /\ Stores = call.before
    /\ call.op = "length" => call.ret = issued - served
    /\ call.op = "isEmpty" => call.bool = (issued - served = 0)

\* the second of four enqueued items is dequeued second
C17_Witness ==
  /\ call.on = "queue"
  /\ call.op = "dequeue"
  /\ issued = 4
  /\ served = 2
  /\ call.ret = 2
  /\ queuePeek(queue) = 3
  /\ queueLength(queue) = 2

\* C18: LIFO - pop() removes and returns the item pushed most recently among
\* those not yet removed (none on an empty stack, which stays at length 0);
\* peek() returns that same top item and changes nothing; length is pushes
\* minus successful pops, and isEmpty() holds exactly when length is 0.
C18_StackLifo ==
  call.on = "stack" =>
    /\ stackLength(array) = issued - served
    /\ call.op = "pop" =>
         /\ call.ret = (IF call.waiting = {} THEN Undefined
                        ELSE Newest(ItemsOf(call.waiting)))
         /\ call.waiting = {} => stackLength(array) = 0
         /\ call.ret # Undefined =>
              ~ \E k \in 1..Len(array) : array[k] = call.ret
    /\ call.op = "peek" =>
         /\ call.ret = (IF call.waiting = {} THEN Undefined
                        ELSE Newest(ItemsOf(call.waiting)))
         /\ call.ret = stackPop(array).ret
         /\ Stores = call.before
    /\ call.op = "length" => call.ret = issued - served
    /\ call.op = "isEmpty" => call.bool = (issued - served = 0)

\* after push 1, push 2, pop, push 3 the pop returns 3 and leaves 1 on top
C18_Witness ==
  /\ call.on = "stack"
  /\ call.op = "pop"
  /\ issued = 3
  /\ served = 2
  /\ call.ret = 3
  /\ call.waiting = {[item |-> 1, high |-> FALSE], [item |-> 3, high |-> FALSE]}
  /\ stackPeek(array) = 1

\* C20: run beside an abstract sequence (push appends, pop drops the last
\* element, delete(i) drops element i), the list agrees with it after every
\* sequence of push, pop and delete: print() is the sequence joined by
\* " => ", length is its size, and no value still in it is missing.
C20_RefinesSequence ==
  AfterMutation =>
    /\ print(Cur).status = "ok"
    /\ print(Cur).str = join(abs, " => ")
    /\ length = Len(abs)
    /\ ChainValues(Cur) = abs

====
